---- MODULE Spec2Model ----
(***************************************************************************)
(* Model of the build step execution engine of easybuild/tools/filetools.py *)
(* (python 2): the interactive runner run_cmd_qa, the blocking runner       *)
(* run_cmd, the patch applicator patch, the output scanner                  *)
(* parselogForError, extractCmd and findBaseDir; and of the                 *)
(* EasyConfigParser of easybuild/framework/easyconfig/parser.py.            *)
(*                                                                          *)
(* Strings are sequences of tokens.  A token of the child's output stands   *)
(* for a piece of text; what matters about it is which of the compiled      *)
(* patterns end in it.  Python's None is NoneStr for string values and      *)
(* NoneInt for integer values, an integer n being the one-element           *)
(* sequence <<n>>.                                                          *)
(***************************************************************************)
EXTENDS Integers, Sequences, FiniteSets, TLC

VARIABLES
    pc,         \* position of the running operation
    args,       \* keyword arguments of the call (log_ok, log_all, simple, regexp), from their first use on
    qaItems,    \* run_cmd_qa: the order in which newQA.items() yields the questions
    ec,         \* run_cmd, run_cmd_qa: result of the most recent p.poll()
    stdoutErr,  \* run_cmd_qa: stdoutErr; run_cmd: stdouterr
    oldLenOut,  \* run_cmd_qa: oldLenOut
    hitCount,   \* run_cmd_qa: hitCount
    tmpOut,     \* run_cmd_qa: tmpOut of the most recent iteration
    hit,        \* run_cmd_qa: hit of the most recent iteration
    branch,     \* run_cmd_qa: the branch the most recent iteration took
    sent,       \* run_cmd_qa: what send_all wrote to the child in the most recent iteration
    killCalls,  \* run_cmd_qa: os.killpg / os.kill calls made, with their outcome
    ret,        \* how the operation ended: nothing yet, a raised error or a returned value
    pargs,      \* patch: the arguments and what os.path says about them
    patchTxt,   \* patch: the lines of the patch file
    fsFiles,    \* patch: the paths, relative to the target directory, that are files
    p,          \* patch: the patch level p
    cwd,        \* patch, findBaseDir: the working directory of the process
    copied,     \* patch: whether the patch file was copied into the target directory
    cmds,       \* patch: the levels of the patch commands handed to run_cmd
    runLog,     \* run_cmd, run_cmd_qa: what was written to runLog, None without a log file
    logClosed,  \* run_cmd: whether runLog.close() was called
    errorsFoundInLog, \* the module's global errorsFoundInLog
    scanTxt,    \* parselogForError: txt of the most recent call
    scanRegExp, \* parselogForError: regExp of the most recent call
    scanRes,    \* parselogForError: res of the most recent call, empty if it built none
    fn,         \* extractCmd: the file name, as its '.'-separated tokens
    overwrite,  \* extractCmd: overwrite
    dirTree,    \* findBaseDir: the listing of each directory on the way down
    lst,        \* findBaseDir: lst
    newDir,     \* findBaseDir: newDir
    fileTxt,    \* EasyConfigParser: the content of the easyconfig file on disk
    rawcontent, \* EasyConfigParser: self.rawcontent
    get_fn,     \* EasyConfigParser: self.get_fn
    set_fn,     \* EasyConfigParser: self.set_fn
    written,    \* EasyConfigParser: the content passed in each call of the write function
    lineNo,     \* _extract_comments: i
    header,     \* _extract_comments: header
    comments    \* EasyConfigParser: self.comments

qaVars == <<qaItems, oldLenOut, hitCount, tmpOut, hit, branch, sent, killCalls>>
patchVars == <<pargs, patchTxt, fsFiles, p, cwd, copied, cmds>>
logVars == <<runLog, logClosed>>
scanVars == <<errorsFoundInLog, scanTxt, scanRegExp, scanRes>>
extractVars == <<fn, overwrite>>
dirVars == <<dirTree, lst, newDir>>
parserVars == <<fileTxt, rawcontent, get_fn, set_fn, written, lineNo, header, comments>>
libVars == <<extractVars, dirVars, parserVars>>
vars == <<pc, args, ec, stdoutErr, ret, qaVars, patchVars, logVars, scanVars, libVars>>

-----------------------------------------------------------------------------
(* Bounds *)

\* longest captured output, in tokens
MaxOut == 2

\* most lines of a patch file
MaxLines == 2

\* largest explicit patch level
MaxLevel == 2

\* longest text handed to parselogForError, in tokens
MaxTxt == 3

\* value of errorsFoundInLog from which on no further call is made
MaxFound == 3

\* most '.'-separated tokens of a file name
MaxParts == 3

\* most directories findBaseDir can descend into
MaxDepth == 2

\* longest output, in characters, of a command that writes a character at a time
MaxLongOut == 501

\* longest easyconfig file, in pieces of text
MaxRaw == 4

\* most calls of the write function
MaxWrites == 2

-----------------------------------------------------------------------------
(* Python values *)

NoneStr == <<"None">>
NoneInt == <<>>
Some(n) == <<n>>

\* truth value of a string or None: '' and None are false
Truthy(s) == s # NoneStr /\ s # <<>>

\* python 2 orders None before every integer, so "None < 0" is true
PyLtZero(v) == v = NoneInt \/ v[1] < 0

\* truth value of an exit code: None and 0 are false
PyNonZero(v) == v # NoneInt /\ v[1] # 0

\* exit statuses a terminated child can report (negative: killed by a signal)
ExitCodes == {0, 1, -9}

\* p.poll(): None while the child runs; the return code, which then stays, once it ended
Poll(prev) == IF prev = NoneInt THEN {NoneInt} \cup {Some(c) : c \in ExitCodes} ELSE {prev}

\* log.error of easybuild.tools.build_log raises: the operation ends with the error
Raised(err) == [kind |-> "raise", err |-> err, ok |-> FALSE, out |-> <<>>, ec |-> NoneInt]
Returned(simple, out, code) ==
    IF simple
    THEN [kind |-> "bool", err |-> "", ok |-> ~PyNonZero(code), out |-> <<>>, ec |-> NoneInt]
    ELSE [kind |-> "pair", err |-> "", ok |-> FALSE, out |-> out, ec |-> code]

\* log.error('... cmd "%s" exited with exitcode %s and output:\n%s' % (cmd, ec, stdouterr))
NonZeroExitError(out, code) == [Raised("NonZeroExit") EXCEPT !.out = out, !.ec = code]

\* s[-n:]
LastChars(s, n) == IF Len(s) <= n THEN s ELSE SubSeq(s, Len(s) - n + 1, Len(s))

NoRet == [kind |-> "none", err |-> "", ok |-> FALSE, out |-> <<>>, ec |-> NoneInt]

-----------------------------------------------------------------------------
(* Output text and patterns *)

\* pieces of child output: "w" is a newline (whitespace), "x" text no question ends in
Tokens == {"ab", "bs", "s", "n", "x", "w"}

\* the patterns (by the question they were compiled from) that a piece of text ends in
EndsIn(t) ==
    CASE t = "ab" -> {"qA", "qB"}
      [] t = "bs" -> {"qB", "sQ"}
      [] t = "s"  -> {"sQ"}
      [] t = "n"  -> {"nQ"}
      [] OTHER    -> {}

\* the caller's tables: custom questions, standard questions, no-progress patterns
qa == [qA |-> <<"y">>, qB |-> <<"n", "\n", "\n">>]
std_qa == [sQ |-> <<"ok">>]
no_qa == <<"nQ">>

RECURSIVE RStrip(_)
RStrip(s) == IF s # <<>> /\ s[Len(s)] = "w" THEN RStrip(SubSeq(s, 1, Len(s) - 1)) ELSE s

\* regQ.search(buf) for a pattern anchored by [\s\n]*$ : the text before the
\* trailing whitespace ends in the question
Search(q, buf) == LET t == RStrip(buf) IN t # <<>> /\ q \in EndsIn(t[Len(t)])

\* a newline added whether or not the answer ends in one
WithNewlineAlways(a) == a \o <<"\n">>

\* processQA, and the std_qa loop: the answer ends in a newline
WithNewline(a) == IF a # <<>> /\ a[Len(a)] = "\n" THEN a ELSE a \o <<"\n">>

Perms(S) == {f \in [1..Cardinality(S) -> S] : \A x \in S : \E i \in DOMAIN f : f[i] = x}

\* strings of at most n tokens
RECURSIVE StrUpTo(_)
StrUpTo(n) == IF n = 0 THEN {<<>>}
              ELSE LET r == StrUpTo(n - 1) IN r \cup {Append(s, t) : s \in r, t \in Tokens}

\* what recv_some can bring: IOError (tmpOut = None), nothing, or new output; a child
\* that has ended writes nothing more
Reads(buf, code) ==
    IF code # NoneInt THEN {<<>>}
    ELSE {NoneStr} \cup {r \in StrUpTo(MaxOut) : Len(buf) + Len(r) <= MaxOut}

-----------------------------------------------------------------------------
(* parselogForError *)

\* values of the regexp argument: False, True (the default failure pattern), a pattern
\* given as a str, a pattern given as a unicode string
RegExps == {"False", "True", "str", "unicode"}

\* "if regexp:" in run_cmd and run_cmd_qa
RegExpTruthy(r) == r # "False"

\* the if / elif / else on regExp: a true bool stands for the default pattern, a str is
\* used as it is, anything else is log.error("parselogForError no valid regExp used")
ValidRegExp(r) == r \in {"True", "str"}

\* the patterns (by the regexp value) that match somewhere in a piece of text
MatchIn(t) ==
    CASE t = "x"  -> {"True"}
      [] t = "bs" -> {"True", "str"}
      [] t = "n"  -> {"str"}
      [] OTHER    -> {}

\* txt.split('\n')
RECURSIVE Split(_)
Split(t) ==
    IF \A i \in DOMAIN t : t[i] # "w" THEN <<t>>
    ELSE LET i == CHOOSE k \in DOMAIN t : t[k] = "w" /\ \A j \in 1..(k - 1) : t[j] # "w"
         IN  <<SubSeq(t, 1, i - 1)>> \o Split(SubSeq(t, i + 1, Len(t)))

\* reg.search(l)
SearchLine(r, l) == \E i \in DOMAIN l : r \in MatchIn(l[i])

RECURSIVE ScanLinesCountAll(_, _, _, _)
ScanLinesCountAll(ls, r, res, n) ==
    IF ls = <<>> THEN [res |-> res, n |-> n]
    ELSE ScanLinesCountAll(Tail(ls), r,
                           IF SearchLine(r, Head(ls)) THEN Append(res, Head(ls)) ELSE res, n + 1)

\* "for l in txt.split('\n')": a matching line is appended to res and counted in
\* errorsFoundInLog
RECURSIVE ScanLines(_, _, _, _)
ScanLines(ls, r, res, n) ==
    IF ls = <<>> THEN [res |-> res, n |-> n]
    ELSE IF SearchLine(r, Head(ls)) THEN ScanLines(Tail(ls), r, Append(res, Head(ls)), n + 1)
    ELSE ScanLines(Tail(ls), r, res, n)

\* a call parselogForError(t, r)
ParseLog(t, r) ==
    /\ scanTxt' = t
    /\ scanRegExp' = r
    /\ IF ValidRegExp(r)
       THEN LET s == ScanLines(Split(t), r, <<>>, errorsFoundInLog)
            IN  scanRes' = s.res /\ errorsFoundInLog' = s.n
       ELSE scanRes' = <<>> /\ UNCHANGED errorsFoundInLog

ScanIdle ==
    /\ errorsFoundInLog = 0
    /\ scanTxt = <<>>
    /\ scanRegExp = "False"
    /\ scanRes = <<>>

-----------------------------------------------------------------------------
(* the end of run_cmd and run_cmd_qa *)

\* a non-zero exit code with log_ok or log_all is log.error before anything else
ExitReported(a, code) == PyNonZero(code) /\ (a.log_all \/ a.log_ok)

\* "if regexp: parselogForError(...)", reached unless the exit code was reported
Scanned(a, code) == ~ExitReported(a, code) /\ RegExpTruthy(a.regexp)

\* a non-zero exit code is an error when log_ok or log_all asks for it; then comes the
\* scan, and the result is a boolean (simple) or (output, ec)
CmdResult(a, out, code) ==
    IF ExitReported(a, code) THEN NonZeroExitError(out, code)
    ELSE IF Scanned(a, code) /\ ~ValidRegExp(a.regexp) THEN Raised("InvalidRegExp")
    ELSE Returned(a.simple, out, code)

\* the scan at the end of a runner
ScanOutput(a, out, code) ==
    IF Scanned(a, code) THEN ParseLog(out, a.regexp) ELSE UNCHANGED scanVars

LogIdle == runLog = NoneStr /\ logClosed = FALSE

ExtractIdle == fn = <<>> /\ overwrite = FALSE

DirIdle == dirTree = <<>> /\ lst = {} /\ newDir = <<>>

\* self.get_fn and self.set_fn: None, or the function, the file name and the content
NoFn == [f |-> "None", fn |-> "None", txt |-> NoneStr]

ParserIdle ==
    /\ fileTxt = <<>>
    /\ rawcontent = NoneStr
    /\ get_fn = NoFn
    /\ set_fn = NoFn
    /\ written = <<>>
    /\ lineNo = 0
    /\ header = FALSE
    /\ comments = NoneStr

LibIdle == ExtractIdle /\ DirIdle /\ ParserIdle

-----------------------------------------------------------------------------
(* run_cmd_qa *)

maxHitCount == 20

\* the number of trailing characters of the output quoted when the hang counter runs out
EndOfOutput == 500

HangTimeoutWholeOutput(buf) == [Raised("HangTimeout") EXCEPT !.out = buf]

\* log.error("... Max nohits %s reached: end of output %s" % (cmd, maxHitCount, stdoutErr[-500:]))
HangTimeoutError(buf) == [Raised("HangTimeout") EXCEPT !.out = LastChars(buf, EndOfOutput)]

\* the first question, in the order of items, whose pattern matches: <<q>>, or <<>>
RECURSIVE FirstMatch(_, _, _)
FirstMatch(items, out, buf) ==
    IF items = <<>> THEN <<>>
    ELSE IF Truthy(out) /\ Search(Head(items), buf) THEN <<Head(items)>>
    ELSE FirstMatch(Tail(items), out, buf)

\* the search without the "tmpOut and" guard
CustomHitAnyRead(out, buf) == FirstMatch(qaItems, <<"x">>, buf)

CustomHit(out, buf) == FirstMatch(qaItems, out, buf)

\* the standard loop without the "if not hit" around it
StdHitAlways(custom, out, buf) == FirstMatch(<<"sQ">>, out, buf)

StdHit(custom, out, buf) == IF custom # <<>> THEN <<>> ELSE FirstMatch(<<"sQ">>, out, buf)

NoQa(buf) == \E i \in DOMAIN no_qa : Search(no_qa[i], buf)

\* the answers written to the child in one iteration
Answers(custom, std) ==
    (IF custom # <<>> THEN <<WithNewline(qa[custom[1]])>> ELSE <<>>)
    \o (IF std # <<>> THEN <<WithNewline(std_qa[std[1]])>> ELSE <<>>)

\* the branch of the if/else cascade that follows the two search loops
Branch(custom, std, buf) ==
    IF custom # <<>> THEN "custom"
    ELSE IF std # <<>> THEN "std"
    ELSE IF Len(buf) > oldLenOut THEN "growth"
    ELSE IF NoQa(buf) THEN "noqa"
    ELSE "nohit"

\* a no-progress match that does not hold the counter back
NextHitCountSentinelCounts(br) ==
    CASE br \in {"custom", "std"} -> 0
      [] br \in {"nohit", "noqa"} -> hitCount + 1
      [] OTHER -> hitCount

NextHitCount(br) ==
    CASE br \in {"custom", "std"} -> 0
      [] br = "nohit" -> hitCount + 1
      [] OTHER -> hitCount

\* os.killpg then os.kill in one try block: an OSError of the first skips the second
Call(f, res) == [call |-> f, res |-> res]
KillSeqs == {<<Call("killpg", "OSError")>>,
             <<Call("killpg", "ok"), Call("kill", "ok")>>,
             <<Call("killpg", "ok"), Call("kill", "OSError")>>}

CmdArgs == [log_ok : BOOLEAN, log_all : BOOLEAN, simple : BOOLEAN, regexp : RegExps]

\* the keyword arguments are drawn where the code first reads them; before the loop only
\* log_all (run_cmd_qa) or log_output (run_cmd) is read, to open runLog
ArgsUnread == [unread |-> TRUE]

PatchIdle ==
    /\ pargs = [patchIsFile |-> FALSE, fn |-> "None", destIsDir |-> FALSE, copy |-> FALSE,
                level |-> NoneInt]
    /\ patchTxt = <<>>
    /\ fsFiles = {}
    /\ p = NoneInt
    /\ cwd = "orig"
    /\ copied = FALSE
    /\ cmds = <<>>

InitQA ==
    /\ pc = "qa_start"
    /\ args = ArgsUnread
    /\ PatchIdle
    /\ qaItems \in Perms(DOMAIN qa)
    /\ ec = NoneInt
    /\ stdoutErr = <<>>
    /\ oldLenOut = -1
    /\ hitCount = 0
    /\ tmpOut = <<>>
    /\ hit = FALSE
    /\ branch = "none"
    /\ sent = <<>>
    /\ killCalls = <<>>
    /\ ret = NoRet
    /\ LogIdle
    /\ ScanIdle
    /\ LibIdle

\* runLog opened and the command written to it
OpenLog(on) == IF on THEN <<"cmd">> ELSE NoneStr

\* "if runLog: runLog.write(text)"
WriteLog(log, text) == IF log = NoneStr THEN log ELSE log \o text

\* Popen, the initial sleep and poll, runLog (if log_all) and the loop variables
QAStart ==
    /\ pc = "qa_start"
    /\ \E e \in Poll(NoneInt) :
        /\ ec' = e
        /\ pc' = IF PyLtZero(e) THEN "qa_loop" ELSE "qa_final"
    /\ \E log_all \in BOOLEAN : runLog' = OpenLog(log_all)
    /\ stdoutErr' = <<>>
    /\ oldLenOut' = -1
    /\ hitCount' = 0
    /\ UNCHANGED <<args, qaItems, tmpOut, hit, branch, sent, killCalls, ret, patchVars,
                   logClosed, scanVars, libVars>>

\* one iteration of "while ec < 0"
QAIter ==
    /\ pc = "qa_loop"
    /\ \E r \in Reads(stdoutErr, ec) :
        LET buf == IF r = NoneStr THEN stdoutErr ELSE stdoutErr \o r
            custom == CustomHit(r, buf)
            std == StdHit(custom, r, buf)
            br == Branch(custom, std, buf)
            hc == NextHitCount(br)
        IN  /\ tmpOut' = r
            /\ runLog' = IF r = NoneStr THEN runLog ELSE WriteLog(runLog, r)
            /\ stdoutErr' = buf
            /\ hit' = (br \in {"custom", "std"})
            /\ branch' = br
            /\ sent' = Answers(custom, std)
            /\ oldLenOut' = IF br = "growth" THEN Len(buf) ELSE oldLenOut
            /\ hitCount' = hc
            /\ IF hc > maxHitCount
               THEN /\ killCalls' \in KillSeqs
                    /\ ret' = HangTimeoutError(buf)
                    /\ pc' = "raised"
                    /\ ec' = ec
               ELSE /\ killCalls' = killCalls
                    /\ ret' = ret
                    /\ \E e \in Poll(ec) :
                        /\ ec' = e
                        /\ pc' = IF PyLtZero(e) THEN "qa_loop" ELSE "qa_final"
    /\ UNCHANGED <<args, qaItems, patchVars, logClosed, scanVars, libVars>>

\* after the loop: the final read, the exit code check, the scan and the return value
QAFinal ==
    /\ pc = "qa_final"
    /\ \E readTxt \in {r \in StrUpTo(MaxOut) : Len(stdoutErr) + Len(r) <= MaxOut} \cup {NoneStr},
          a \in {c \in CmdArgs : c.log_all = (runLog # NoneStr)} :
        LET out == IF readTxt = NoneStr THEN stdoutErr ELSE stdoutErr \o readTxt
        IN  /\ stdoutErr' = out
            /\ runLog' = IF readTxt = NoneStr THEN runLog ELSE WriteLog(runLog, readTxt)
            /\ args' = a
            /\ ScanOutput(a, out, ec)
            /\ ret' = CmdResult(a, out, ec)
            /\ pc' = IF ret'.kind = "raise" THEN "raised" ELSE "done"
    /\ UNCHANGED <<ec, qaVars, patchVars, logClosed, libVars>>

NextQA == QAStart \/ QAIter \/ QAFinal

SpecQA == InitQA /\ [][NextQA]_vars

-----------------------------------------------------------------------------
(* run_cmd *)

QAIdle ==
    /\ qaItems = <<>>
    /\ oldLenOut = -1
    /\ hitCount = 0
    /\ tmpOut = <<>>
    /\ hit = FALSE
    /\ branch = "none"
    /\ sent = <<>>
    /\ killCalls = <<>>

InitRun ==
    /\ pc = "run_start"
    /\ args = ArgsUnread
    /\ ec = NoneInt
    /\ stdoutErr = <<>>
    /\ ret = NoRet
    /\ QAIdle
    /\ PatchIdle
    /\ LogIdle
    /\ ScanIdle
    /\ LibIdle

\* runLog (if log_output), Popen, the initial sleep and poll
RunStart ==
    /\ pc = "run_start"
    /\ \E log_output \in BOOLEAN : runLog' = OpenLog(log_output)
    /\ \E e \in Poll(NoneInt) :
        /\ ec' = e
        /\ pc' = IF PyLtZero(e) THEN "run_loop" ELSE "run_final"
    /\ stdoutErr' = <<>>
    /\ UNCHANGED <<args, ret, qaVars, patchVars, logClosed, scanVars, libVars>>

\* one iteration of "while ec < 0": read, sleep, poll
RunIter ==
    /\ pc = "run_loop"
    /\ \E output \in Reads(stdoutErr, ec) \ {NoneStr} :
        /\ runLog' = WriteLog(runLog, output)
        /\ stdoutErr' = stdoutErr \o output
    /\ \E e \in Poll(ec) :
        /\ ec' = e
        /\ pc' = IF PyLtZero(e) THEN "run_loop" ELSE "run_final"
    /\ UNCHANGED <<args, ret, qaVars, patchVars, logClosed, scanVars, libVars>>

\* after the loop: read the remaining data (not written to runLog), check the exit
\* code, close runLog, scan, return
RunFinal ==
    /\ pc = "run_final"
    /\ \E rest \in {r \in StrUpTo(MaxOut) : Len(stdoutErr) + Len(r) <= MaxOut}, a \in CmdArgs :
        /\ stdoutErr' = stdoutErr \o rest
        /\ args' = a
        /\ logClosed' = (runLog # NoneStr /\ ~ExitReported(a, ec))
        /\ ScanOutput(a, stdoutErr \o rest, ec)
        /\ ret' = CmdResult(a, stdoutErr \o rest, ec)
        /\ pc' = IF ret'.kind = "raise" THEN "raised" ELSE "done"
    /\ UNCHANGED <<ec, qaVars, patchVars, runLog, libVars>>

NextRun == RunStart \/ RunIter \/ RunFinal

SpecRun == InitRun /\ [][NextRun]_vars

-----------------------------------------------------------------------------
(* patch *)

\* the paths of "+++" lines, as their '/'-separated segments
PlusPaths == {<<"f">>, <<"a", "f">>, <<"b", "a", "f">>, <<"g">>}

\* a line of a patch file: a "+++ <file>" line, or any other line
PatchLineSet == {[plus |-> TRUE, file |-> f] : f \in PlusPaths} \cup {[plus |-> FALSE, file |-> <<>>]}

RECURSIVE SeqsUpTo(_, _)
SeqsUpTo(S, n) == IF n = 0 THEN {<<>>}
                  ELSE LET r == SeqsUpTo(S, n - 1) IN r \cup {Append(s, x) : s \in r, x \in S}

\* what can be a file below the target directory
FsPaths == {<<"f">>, <<"a", "f">>, <<"g">>}

Levels == {NoneInt} \cup {Some(l) : l \in 0..MaxLevel}

PatchArgs == [patchIsFile : BOOLEAN, fn : {"None", "file", "missing"}, destIsDir : BOOLEAN,
              copy : BOOLEAN, level : Levels]

\* "not level": None and 0 are false
NotLevel(level) == level = NoneInt \/ level[1] = 0

\* the lines patchreg finds, in file order: the file group of each
RECURSIVE PlusLines(_)
PlusLines(txt) ==
    IF txt = <<>> THEN <<>>
    ELSE (IF Head(txt).plus THEN <<Head(txt).file>> ELSE <<>>) \o PlusLines(Tail(txt))

\* '/'.join(tf2[i:])
StripTo(f, i) == SubSeq(f, i + 1, Len(f))

\* the loop without its break: the last i that gives a file
LastStrip(f, i) ==
    LET S == {k \in i..(Len(f) - 1) : StripTo(f, k) \in fsFiles}
    IN  IF S = {} THEN NoneInt ELSE Some(CHOOSE k \in S : \A m \in S : m <= k)

\* the loop without its os.path.isfile test
StripUnchecked(f, i) == IF i >= Len(f) THEN NoneInt ELSE Some(i)

\* for i in range(n): the first i from which the rest of the path is a file, else None
RECURSIVE FirstStrip(_, _)
FirstStrip(f, i) ==
    IF i >= Len(f) THEN NoneInt
    ELSE IF StripTo(f, i) \in fsFiles THEN Some(i)
    ELSE FirstStrip(f, i + 1)

\* for line in plusLines: the level of the first line that has one, else None
RECURSIVE GuessLevel(_)
GuessLevel(lines) ==
    IF lines = <<>> THEN NoneInt
    ELSE LET i == FirstStrip(Head(lines), 0)
         IN  IF i # NoneInt THEN i ELSE GuessLevel(Tail(lines))

\* "p == None": no line gave a level
NoLevel(lvl) == lvl = NoneInt

InitPatch ==
    /\ pc = "patch_start"
    /\ pargs \in PatchArgs
    /\ patchTxt \in SeqsUpTo(PatchLineSet, MaxLines)
    /\ fsFiles \in SUBSET FsPaths
    /\ p = NoneInt
    /\ cwd = "orig"
    /\ copied = FALSE
    /\ cmds = <<>>
    /\ args = [log_ok |-> TRUE, log_all |-> FALSE, simple |-> TRUE, regexp |-> "True"]
    /\ ec = NoneInt
    /\ stdoutErr = <<>>
    /\ ret = NoRet
    /\ QAIdle
    /\ LogIdle
    /\ ScanIdle
    /\ LibIdle

\* the three existence checks
PatchPre ==
    /\ pc = "patch_start"
    /\ IF ~pargs.patchIsFile THEN ret' = Raised("MissingFile") /\ pc' = "raised"
       ELSE IF pargs.fn = "missing" THEN ret' = Raised("MissingFile") /\ pc' = "raised"
       ELSE IF ~pargs.destIsDir THEN ret' = Raised("MissingDirectory") /\ pc' = "raised"
       ELSE ret' = ret /\ pc' = "patch_checked"
    /\ UNCHANGED <<args, ec, stdoutErr, qaVars, patchVars, logVars, scanVars, libVars>>

\* copy mode: shutil.copy2, which can fail with IOError
PatchCopy ==
    /\ pc = "patch_checked"
    /\ pargs.copy
    /\ \E copyOk \in BOOLEAN :
        IF copyOk THEN /\ copied' = TRUE
                       /\ ret' = [NoRet EXCEPT !.kind = "ok"]
                       /\ pc' = "done"
        ELSE /\ copied' = copied
             /\ ret' = Raised("CopyFailed")
             /\ pc' = "raised"
    /\ UNCHANGED <<args, ec, stdoutErr, qaVars, pargs, patchTxt, fsFiles, p, cwd, cmds,
                   logVars, scanVars, libVars>>

\* os.chdir(adest) reached in copy mode as well
PatchChdirInCopyMode ==
    /\ pc = "patch_checked"
    /\ \E chdirOk \in BOOLEAN :
        IF chdirOk THEN cwd' = "adest" /\ ret' = ret /\ pc' = "patch_level"
        ELSE cwd' = cwd /\ ret' = Raised("ChdirFailed") /\ pc' = "raised"
    /\ UNCHANGED <<args, ec, stdoutErr, qaVars, pargs, patchTxt, fsFiles, p, copied, cmds,
                   logVars, scanVars, libVars>>

\* os.chdir(adest), which can fail with OSError
PatchChdir ==
    /\ pc = "patch_checked"
    /\ ~pargs.copy
    /\ \E chdirOk \in BOOLEAN :
        IF chdirOk THEN cwd' = "adest" /\ ret' = ret /\ pc' = "patch_level"
        ELSE cwd' = cwd /\ ret' = Raised("ChdirFailed") /\ pc' = "raised"
    /\ UNCHANGED <<args, ec, stdoutErr, qaVars, pargs, patchTxt, fsFiles, p, copied, cmds,
                   logVars, scanVars, libVars>>

\* the level: guessed from the "+++" lines when "not level", else the given one
PatchLevel ==
    /\ pc = "patch_level"
    /\ IF NotLevel(pargs.level)
       THEN \E readOk \in BOOLEAN :
            IF ~readOk THEN p' = p /\ ret' = Raised("ReadFailed") /\ pc' = "raised"
            ELSE IF PlusLines(patchTxt) = <<>>
                 THEN p' = p /\ ret' = Raised("PatchLevelUndetermined") /\ pc' = "raised"
            ELSE LET lvl == GuessLevel(PlusLines(patchTxt))
                 IN  /\ p' = lvl
                     /\ IF NoLevel(lvl)
                        THEN ret' = Raised("PatchLevelUndetermined") /\ pc' = "raised"
                        ELSE ret' = ret /\ pc' = "patch_run"
       ELSE p' = pargs.level /\ ret' = ret /\ pc' = "patch_run"
    /\ UNCHANGED <<args, ec, stdoutErr, qaVars, pargs, patchTxt, fsFiles, cwd, copied, cmds,
                   logVars, scanVars, libVars>>

\* patchCmd = "patch -b -p%d -i %s" % (p, apatch), and run_cmd(patchCmd, simple=True)
PatchRun ==
    /\ pc = "patch_run"
    /\ IF p = NoneInt
       THEN /\ cmds' = cmds /\ ec' = ec /\ ret' = Raised("TypeError") /\ pc' = "raised"
            /\ UNCHANGED scanVars
       ELSE /\ cmds' = Append(cmds, p)
            /\ \E e \in {Some(c) : c \in ExitCodes} :
                /\ ec' = e
                /\ IF PyLtZero(e) THEN ret' = ret /\ pc' = "run_loop_forever" /\ UNCHANGED scanVars
                   ELSE LET result == CmdResult(args, <<>>, e)
                        IN  /\ ScanOutput(args, <<>>, e)
                            /\ IF result.kind = "raise" THEN ret' = result /\ pc' = "raised"
                               ELSE IF ~result.ok
                                    THEN ret' = Raised("PatchFailed") /\ pc' = "raised"
                               ELSE ret' = result /\ pc' = "done"
    /\ UNCHANGED <<args, stdoutErr, qaVars, pargs, patchTxt, fsFiles, p, cwd, copied,
                   logVars, libVars>>

NextPatch == PatchPre \/ PatchCopy \/ PatchChdir \/ PatchLevel \/ PatchRun

SpecPatch == InitPatch /\ [][NextPatch]_vars

-----------------------------------------------------------------------------
(* parselogForError called on its own, any number of times *)

InitScan ==
    /\ pc = "scan"
    /\ args = ArgsUnread
    /\ ec = NoneInt
    /\ stdoutErr = <<>>
    /\ ret = NoRet
    /\ QAIdle
    /\ PatchIdle
    /\ LogIdle
    /\ ScanIdle
    /\ LibIdle

\* the pieces of text that differ for the scan: without a match, with a match of the
\* default pattern, with a match of a pattern of the caller's, a newline
ScanTokens == {"ab", "x", "n", "w"}

\* one call: the list res is returned, or log.error ends the call
ParseLogCall ==
    /\ pc = "scan"
    /\ errorsFoundInLog < MaxFound
    /\ \E t \in SeqsUpTo(ScanTokens, MaxTxt), r \in RegExps :
        /\ ParseLog(t, r)
        /\ ret' = IF ValidRegExp(r) THEN [NoRet EXCEPT !.kind = "list"]
                  ELSE Raised("InvalidRegExp")
    /\ UNCHANGED <<pc, args, ec, stdoutErr, qaVars, patchVars, logVars, libVars>>

NextScan == ParseLogCall

SpecScan == InitScan /\ [][NextScan]_vars

-----------------------------------------------------------------------------
(* extractCmd *)

\* tokens of file names
NameTokens == {"foo", "xyz", "tar", "TAR", "gz", "GZ", "tgz", "gtgz", "bz2", "tbz", "zip", "Zip"}

\* x.lower()
Lower(t) ==
    CASE t = "TAR" -> "tar"
      [] t = "GZ"  -> "gz"
      [] t = "Zip" -> "zip"
      [] OTHER     -> t

\* ff[-2], which is an IndexError when fn holds no '.'
SecondToLast(ff) == IF Len(ff) < 2 THEN <<"IndexError">> ELSE <<"ok", ff[Len(ff) - 1]>>

\* the chain of ifs on ff[-1] that sets ftype; "IndexError" if ff[-2] does not exist
FType(ff, ow) ==
    LET last == ff[Len(ff)]
        prev == SecondToLast(ff)
    IN  CASE last = "gz" ->
                IF prev[1] = "IndexError" THEN "IndexError"
                ELSE IF prev[2] = "tar" THEN "tar xzf %s" ELSE "gunzip %s"
          [] last \in {"tgz", "gtgz"} -> "tar xzf %s"
          [] last = "bz2" ->
                IF prev[1] = "IndexError" THEN "IndexError"
                ELSE IF prev[2] = "tar" THEN "tar xjf %s" ELSE "bunzip2 %s"
          [] last = "tbz" -> "tar xfj %s"
          [] last = "tar" -> "tar xf %s"
          [] last = "zip" -> IF ow THEN "unzip -qq -o %s" ELSE "unzip -qq %s"
          [] OTHER -> "None"

\* ftype % fn: the template and the name that takes the place of %s
Command(ftype, name) == [NoRet EXCEPT !.kind = "str", !.out = <<ftype>> \o name]

extractCmd(name, ow) ==
    LET ff == [i \in DOMAIN name |-> Lower(name[i])]
        ftype == FType(ff, ow)
    IN  IF ftype = "IndexError" THEN Raised("IndexError")
        ELSE IF ftype = "None" THEN Raised("UnknownFormat")
        ELSE Command(ftype, name)

InitExtract ==
    /\ pc = "x_start"
    /\ fn \in SeqsUpTo(NameTokens, MaxParts) \ {<<>>}
    /\ overwrite \in BOOLEAN
    /\ args = ArgsUnread
    /\ ec = NoneInt
    /\ stdoutErr = <<>>
    /\ ret = NoRet
    /\ QAIdle
    /\ PatchIdle
    /\ LogIdle
    /\ ScanIdle
    /\ DirIdle
    /\ ParserIdle

\* a call extractCmd(fn, overwrite), and the same call once more
ExtractCall ==
    /\ pc \in {"x_start", "x_once"}
    /\ ret' = extractCmd(fn, overwrite)
    /\ pc' = IF pc = "x_start" THEN "x_once" ELSE "x_twice"
    /\ UNCHANGED <<args, ec, stdoutErr, qaVars, patchVars, logVars, scanVars, libVars>>

NextExtract == ExtractCall

SpecExtract == InitExtract /\ [][NextExtract]_vars

-----------------------------------------------------------------------------
(* findBaseDir *)

\* names of directory entries: "f" is a plain file, the others are directories
Entries == {"easybuildlog", "d", "e", "f"}

\* os.path.isdir of the entry of that name
IsDir(name) == name # "f"

ignoreDirs == {"easybuildlog"}

\* getLocalDirsPurged: os.listdir(os.getcwd()) without the names of ignoreDirs; the order
\* of the list is left out, lst[0] being looked at only when lst has one element
getLocalDirsPurged(tree, dir) == tree[Len(dir) + 1] \ ignoreDirs

\* the one element of a list of length 1
Sole(l) == CHOOSE x \in l : TRUE

\* the directories on the way down: tree[k] lists the directory k - 1 levels below the
\* start; every listing but the last is one that findBaseDir descends from
DirTrees ==
    {t \in SeqsUpTo(SUBSET Entries, MaxDepth + 1) :
        /\ t # <<>>
        /\ \A k \in DOMAIN t :
              LET l == t[k] \ ignoreDirs
              IN  (k < Len(t)) <=> (Cardinality(l) = 1 /\ IsDir(Sole(l)))}

PatchIdleButCwd ==
    /\ pargs = [patchIsFile |-> FALSE, fn |-> "None", destIsDir |-> FALSE, copy |-> FALSE,
                level |-> NoneInt]
    /\ patchTxt = <<>>
    /\ fsFiles = {}
    /\ p = NoneInt
    /\ copied = FALSE
    /\ cmds = <<>>

\* the working directory is the path, as its segments, from the directory of the start
InitDir ==
    /\ pc = "fbd_start"
    /\ dirTree \in DirTrees
    /\ cwd = <<>>
    /\ lst = {}
    /\ newDir = <<>>
    /\ args = ArgsUnread
    /\ ec = NoneInt
    /\ stdoutErr = <<>>
    /\ ret = NoRet
    /\ QAIdle
    /\ PatchIdleButCwd
    /\ LogIdle
    /\ ScanIdle
    /\ ExtractIdle
    /\ ParserIdle

\* lst = getLocalDirsPurged(); newDir = os.getcwd()
FindStart ==
    /\ pc = "fbd_start"
    /\ lst' = getLocalDirsPurged(dirTree, cwd)
    /\ newDir' = cwd
    /\ pc' = "fbd_loop"
    /\ UNCHANGED <<args, ec, stdoutErr, ret, qaVars, pargs, patchTxt, fsFiles, p, cwd, copied,
                   cmds, logVars, scanVars, extractVars, dirTree, parserVars>>

\* one iteration of "while len(lst) == 1"; os.chdir into a directory succeeds
FindIter ==
    /\ pc = "fbd_loop"
    /\ Cardinality(lst) = 1
    /\ newDir' = Append(cwd, Sole(lst))
    /\ IF ~IsDir(Sole(lst))
       THEN pc' = "fbd_break" /\ UNCHANGED <<cwd, lst>>
       ELSE /\ cwd' = newDir'
            /\ lst' = getLocalDirsPurged(dirTree, newDir')
            /\ pc' = "fbd_loop"
    /\ UNCHANGED <<args, ec, stdoutErr, ret, qaVars, pargs, patchTxt, fsFiles, p, copied,
                   cmds, logVars, scanVars, extractVars, dirTree, parserVars>>

\* return newDir, after the loop or after its break
FindReturn ==
    /\ pc = "fbd_break" \/ (pc = "fbd_loop" /\ Cardinality(lst) # 1)
    /\ ret' = [NoRet EXCEPT !.kind = "path", !.out = newDir]
    /\ pc' = "fbd_done"
    /\ UNCHANGED <<args, ec, stdoutErr, qaVars, patchVars, logVars, scanVars, libVars>>

NextDir == FindStart \/ FindIter \/ FindReturn

SpecDir == InitDir /\ [][NextDir]_vars

-----------------------------------------------------------------------------
(* run_cmd_qa with a command that writes one character at a time and asks nothing:
   the errors that quote the output *)

InitLong ==
    /\ pc = "long_loop"
    /\ args = ArgsUnread
    /\ ec = NoneInt
    /\ stdoutErr = <<>>
    /\ ret = NoRet
    /\ QAIdle
    /\ PatchIdle
    /\ LogIdle
    /\ ScanIdle
    /\ LibIdle

\* stdoutErr += tmpOut
LongRead ==
    /\ pc = "long_loop"
    /\ Len(stdoutErr) < MaxLongOut
    /\ stdoutErr' = Append(stdoutErr, "x")
    /\ UNCHANGED <<pc, args, ec, ret, qaVars, patchVars, logVars, scanVars, libVars>>

\* the hang counter runs out
LongHang ==
    /\ pc = "long_loop"
    /\ ret' = HangTimeoutError(stdoutErr)
    /\ pc' = "raised"
    /\ UNCHANGED <<args, ec, stdoutErr, qaVars, patchVars, logVars, scanVars, libVars>>

\* the command ends with exit code 1, and log_ok has its default value True
LongExit ==
    /\ pc = "long_loop"
    /\ ec' = Some(1)
    /\ args' = [log_ok |-> TRUE, log_all |-> FALSE, simple |-> FALSE, regexp |-> "True"]
    /\ ret' = CmdResult(args', stdoutErr, ec')
    /\ pc' = "raised"
    /\ UNCHANGED <<stdoutErr, qaVars, patchVars, logVars, scanVars, libVars>>

NextLong == LongRead \/ LongHang \/ LongExit

SpecLong == InitLong /\ [][NextLong]_vars

-----------------------------------------------------------------------------
(* EasyConfigParser, created from a file name *)

\* pieces of easyconfig text: a comment ("#c", which starts with '#'), text of the form
\* key = value without '#' ("kv"), and the newline "w"
RawTokens == {"#c", "kv", "w"}

\* the contents a changed file can have
ChangedTexts == {<<"kv">>, <<"#c", "w", "kv">>}

\* raw[i].startswith('#')
StartsWithHash(l) == l # <<>> /\ l[1] = "#c"

\* '#' in raw[i]
HasHash(l) == \E k \in DOMAIN l : l[k] = "#c"

\* raw[i].split('=', 1)[0].strip()
Key(l) == IF l # <<>> /\ l[1] = "kv" THEN "k" ELSE "other"

\* _check_filename(fn) for a name that is a file: set_fn takes the content that
\* self.rawcontent holds now
CheckFilename(name, content) ==
    [get |-> [f |-> "read_file", fn |-> name, txt |-> NoneStr],
     set |-> [f |-> "write_file", fn |-> name, txt |-> content]]

\* the inner "while raw[i].startswith('#') or not raw[i]": the comment gathered and the
\* index it stops at, or an IndexError when raw[i] is read with i = len(raw)
RECURSIVE CommentBlock(_, _, _)
CommentBlock(raw, k, comment) ==
    IF k >= Len(raw) THEN [err |-> TRUE, i |-> k, comment |-> comment]
    ELSE IF StartsWithHash(raw[k + 1]) \/ raw[k + 1] = <<>>
         THEN CommentBlock(raw, k + 1, Append(comment, raw[k + 1]))
    ELSE [err |-> FALSE, i |-> k, comment |-> comment]

\* d[key] = value, a dict being the set of its items
DictSet(d, key, value) == {e \in d : e[1] # key} \cup {<<key, value>>}

InitParser ==
    /\ pc = "p_new"
    /\ fileTxt \in SeqsUpTo(RawTokens, MaxRaw)
    /\ rawcontent = NoneStr
    /\ get_fn = NoFn
    /\ set_fn = NoFn
    /\ written = <<>>
    /\ lineNo = 0
    /\ header = FALSE
    /\ comments = NoneStr
    /\ args = ArgsUnread
    /\ ec = NoneInt
    /\ stdoutErr = <<>>
    /\ ret = NoRet
    /\ QAIdle
    /\ PatchIdle
    /\ LogIdle
    /\ ScanIdle
    /\ ExtractIdle
    /\ DirIdle

\* __init__(filename): _check_filename(filename) and process(), up to _extract_comments;
\* the formatter is taken to accept the content
ParserNew ==
    /\ pc = "p_new"
    /\ \E isfile \in BOOLEAN, readOk \in BOOLEAN :
        IF ~isfile
        THEN /\ ret' = Raised("NoGetFunction")
             /\ pc' = "raised"
             /\ UNCHANGED <<get_fn, set_fn, rawcontent>>
        ELSE /\ get_fn' = CheckFilename("f", rawcontent).get
             /\ set_fn' = CheckFilename("f", rawcontent).set
             /\ IF readOk
                THEN rawcontent' = fileTxt /\ ret' = ret /\ pc' = "p_comments"
                ELSE rawcontent' = rawcontent /\ ret' = Raised("ReadFailed") /\ pc' = "raised"
    /\ UNCHANGED <<args, ec, stdoutErr, qaVars, patchVars, logVars, scanVars, extractVars,
                   dirVars, fileTxt, written, lineNo, header, comments>>

\* _extract_comments up to its loop
ExtractStart ==
    /\ pc = "p_comments"
    /\ comments' = [header |-> <<>>, inline |-> {}, above |-> {}]
    /\ header' = TRUE
    /\ lineNo' = 0
    /\ pc' = "p_loop"
    /\ UNCHANGED <<args, ec, stdoutErr, ret, qaVars, patchVars, logVars, scanVars,
                   extractVars, dirVars, fileTxt, rawcontent, get_fn, set_fn, written>>

\* one iteration of "while i<len(raw)"; whether the text after '#' is part of the value
\* is the formatter's to say
ExtractIter ==
    /\ pc = "p_loop"
    /\ LET raw == Split(rawcontent)
       IN  /\ lineNo < Len(raw)
           /\ LET l == raw[lineNo + 1]
              IN  IF StartsWithHash(l) /\ header
                  THEN /\ comments' = [comments EXCEPT !.header = Append(@, l)]
                       /\ lineNo' = lineNo + 1
                       /\ UNCHANGED <<header, ret, pc>>
                  ELSE /\ header' = FALSE
                       /\ IF StartsWithHash(l)
                          THEN LET b == CommentBlock(raw, lineNo, <<>>)
                               IN  IF b.err
                                   THEN /\ lineNo' = b.i
                                        /\ ret' = Raised("IndexError")
                                        /\ pc' = "raised"
                                        /\ UNCHANGED comments
                                   ELSE /\ comments' = [comments EXCEPT
                                              !.above = DictSet(@, Key(raw[b.i + 1]), b.comment)]
                                        /\ lineNo' = b.i + 1
                                        /\ UNCHANGED <<ret, pc>>
                          ELSE /\ lineNo' = lineNo + 1
                               /\ UNCHANGED <<ret, pc>>
                               /\ IF HasHash(l)
                                  THEN \E inValue \in BOOLEAN :
                                        comments' = IF inValue THEN comments
                                                    ELSE [comments EXCEPT
                                                            !.inline = DictSet(@, Key(l), "#c")]
                                  ELSE UNCHANGED comments
    /\ UNCHANGED <<args, ec, stdoutErr, qaVars, patchVars, logVars, scanVars, extractVars,
                   dirVars, fileTxt, rawcontent, get_fn, set_fn, written>>

\* the loop has ended, and __init__ with it
ExtractEnd ==
    /\ pc = "p_loop"
    /\ lineNo >= Len(Split(rawcontent))
    /\ pc' = "p_ready"
    /\ UNCHANGED <<args, ec, stdoutErr, ret, qaVars, patchVars, logVars, scanVars,
                   extractVars, dirVars, parserVars>>

\* the file is changed on disk
FileChanges ==
    /\ pc = "p_ready"
    /\ fileTxt' \in ChangedTexts \ {fileTxt}
    /\ UNCHANGED <<pc, args, ec, stdoutErr, ret, qaVars, patchVars, logVars, scanVars,
                   extractVars, dirVars, rawcontent, get_fn, set_fn, written, lineNo, header,
                   comments>>

\* process(filename): _read(filename), then the formatter
Process ==
    /\ pc = "p_ready"
    /\ \E filename \in {"None", "f"}, readOk \in BOOLEAN :
        /\ IF filename # "None"
           THEN /\ get_fn' = CheckFilename(filename, rawcontent).get
                /\ set_fn' = CheckFilename(filename, rawcontent).set
           ELSE UNCHANGED <<get_fn, set_fn>>
        /\ IF readOk THEN rawcontent' = fileTxt /\ ret' = NoRet
           ELSE rawcontent' = rawcontent /\ ret' = Raised("ReadFailed")
    /\ UNCHANGED <<pc, args, ec, stdoutErr, qaVars, patchVars, logVars, scanVars, extractVars,
                   dirVars, fileTxt, written, lineNo, header, comments>>

\* write(filename): the write function is called with the arguments held in set_fn
Write ==
    /\ pc = "p_ready"
    /\ Len(written) < MaxWrites
    /\ \E filename \in {"None", "f"}, writeOk \in BOOLEAN :
        /\ IF filename # "None"
           THEN /\ get_fn' = CheckFilename(filename, rawcontent).get
                /\ set_fn' = CheckFilename(filename, rawcontent).set
           ELSE UNCHANGED <<get_fn, set_fn>>
        /\ written' = Append(written, set_fn'.txt)
        /\ ret' = IF writeOk THEN NoRet ELSE Raised("WriteFailed")
    /\ UNCHANGED <<pc, args, ec, stdoutErr, qaVars, patchVars, logVars, scanVars, extractVars,
                   dirVars, fileTxt, rawcontent, lineNo, header, comments>>

NextParser ==
    ParserNew \/ ExtractStart \/ ExtractIter \/ ExtractEnd \/ FileChanges \/ Process \/ Write

SpecParser == InitParser /\ [][NextParser]_vars

-----------------------------------------------------------------------------
(* Properties of run_cmd_qa *)

\* the state is the one an iteration of the loop of run_cmd_qa has just left
IterDone == branch # "none" /\ (pc \in {"qa_loop", "qa_final"} \/ ret.err = "HangTimeout")

CustomMatch(buf) == \E q \in DOMAIN qa : Search(q, buf)

\* C1: every iteration that sends an answer, and every iteration in which the
\* cumulative output grows, leaves the hang counter at zero.
C1_HangCounterResets ==
    [][pc = "qa_loop" => ((hit' \/ Len(stdoutErr') > Len(stdoutErr)) => hitCount' = 0)]_vars

\* the threshold alone: HangTimeout is raised in the iteration that takes the counter
\* above maxHitCount and in no other, and an unproductive poll counts once
HangAtThreshold ==
    /\ (ret'.err = "HangTimeout") <=> (hitCount' > maxHitCount)
    /\ branch' = "nohit" => hitCount' = hitCount + 1
    /\ hitCount' <= maxHitCount + 1

HangThresholdOnly == [][pc = "qa_loop" => HangAtThreshold]_vars

\* C2: an unproductive poll adds one to the hang counter; HangTimeout is raised exactly
\* in the poll that takes the counter above 20, and in that poll the child is terminated.
C2_HangTimeoutAtThreshold ==
    [][pc = "qa_loop" =>
          /\ HangAtThreshold
          /\ ret'.err = "HangTimeout" => \E i \in DOMAIN killCalls' : killCalls'[i].res = "ok"]_vars

\* C3: when run_cmd_qa has failed with HangTimeout, os.killpg and then os.kill have
\* been called for the child, whatever os.killpg reported.
C3_KilledBeforeHangTimeout ==
    ret.err = "HangTimeout" =>
        /\ Len(killCalls) = 2
        /\ killCalls[1].call = "killpg"
        /\ killCalls[2].call = "kill"

\* C5 as stated: after every iteration in which the buffer matches a custom pattern an
\* answer has been sent and the hang counter is zero, new bytes or not.
C5_AnswerWheneverBufferMatches ==
    (IterDone /\ CustomMatch(stdoutErr)) => (sent # <<>> /\ hitCount = 0)

\* C5 amended: after an iteration that read new bytes and whose buffer matches a custom
\* pattern, the answer of a matching custom pattern has been sent and the hang counter
\* is zero; an iteration that read nothing sends nothing.
C5_AnswerWhenNewBytesMatch ==
    IterDone =>
        /\ (Truthy(tmpOut) /\ CustomMatch(stdoutErr)) =>
              /\ \E q \in DOMAIN qa : Search(q, stdoutErr) /\ sent = <<WithNewline(qa[q])>>
              /\ hitCount = 0
        /\ ~Truthy(tmpOut) => sent = <<>>

\* a question still at the end of the buffer is answered again when whitespace arrives
C5_AnsweredAgain ==
    /\ IterDone
    /\ stdoutErr = <<"ab", "w">>
    /\ tmpOut = <<"w">>
    /\ sent # <<>>
    /\ hitCount = 0

\* C6: an iteration writes at most one answer; a standard answer is written only when
\* no custom pattern matches, and when a custom pattern matches new output the answer
\* written is a custom one.
C6_AtMostOneAnswer ==
    IterDone =>
        /\ Len(sent) <= 1
        /\ sent = <<WithNewline(std_qa["sQ"])>> => ~CustomMatch(stdoutErr)
        /\ (Truthy(tmpOut) /\ CustomMatch(stdoutErr)) =>
              \E q \in DOMAIN qa : sent = <<WithNewline(qa[q])>>

\* a custom and a standard pattern match the same buffer, and the custom answer went out
C6_BothMatchCustomSent ==
    /\ IterDone
    /\ Truthy(tmpOut)
    /\ Search("qB", stdoutErr)
    /\ Search("sQ", stdoutErr)
    /\ sent = <<WithNewline(qa["qB"])>>

\* C7: an iteration without a hit sends nothing; if the buffer is also no longer than
\* oldLenOut, the hang counter stays as it is when a no-progress pattern matches and
\* goes up by exactly one otherwise.
C7_SentinelKeepsCounter ==
    [][pc = "qa_loop" =>
          /\ ~hit' => sent' = <<>>
          /\ (~hit' /\ Len(stdoutErr') <= oldLenOut) =>
                hitCount' = IF \E i \in DOMAIN no_qa : Search(no_qa[i], stdoutErr')
                            THEN hitCount ELSE hitCount + 1]_vars

\* a no-progress pattern matched in an iteration that began with a non-zero counter
C7_SentinelSeen ==
    /\ IterDone
    /\ branch = "noqa"
    /\ Search("nQ", stdoutErr)
    /\ hitCount > 0
    /\ sent = <<>>

-----------------------------------------------------------------------------
(* Properties of run_cmd *)

\* C4: the loop is left by the first poll that sees the child terminated: no
\* iteration starts with the exit status of a terminated child in ec.
C4_LoopEndsOnTermination == pc \in {"run_loop", "qa_loop"} => ec = NoneInt

-----------------------------------------------------------------------------
(* Properties of patch *)

\* path f with its first k segments stripped is a file
Resolves(f, k) == k < Len(f) /\ SubSeq(f, k + 1, Len(f)) \in fsFiles

\* line j of the patch file is a "+++" line whose path resolves at some depth
LineResolves(j) == patchTxt[j].plus /\ \E k \in 0..Len(patchTxt[j].file) : Resolves(patchTxt[j].file, k)

PatchEnded == pc \in {"done", "raised", "run_loop_forever"}

\* C8: an inferred level is the smallest strip depth at which the first "+++" path
\* that resolves at all resolves.
C8_FirstLineSmallestDepth ==
    (NotLevel(pargs.level) /\ p # NoneInt) =>
        \E j \in DOMAIN patchTxt :
            /\ LineResolves(j)
            /\ \A i \in 1..(j - 1) : ~LineResolves(i)
            /\ Resolves(patchTxt[j].file, p[1])
            /\ \A k \in 0..(p[1] - 1) : ~Resolves(patchTxt[j].file, k)

\* the first line resolves at depths 1 and 2, a later line at depth 0: level 1 is used
C8_LaterLineIgnored ==
    /\ PatchEnded
    /\ pargs.level = NoneInt
    /\ patchTxt = <<[plus |-> TRUE, file |-> <<"b", "a", "f">>], [plus |-> TRUE, file |-> <<"f">>]>>
    /\ fsFiles = {<<"a", "f">>, <<"f">>}
    /\ cmds = <<Some(1)>>

\* C9: a patch command run with an inferred level has a "+++" path that resolves at
\* that level; and when the level is to be inferred and no "+++" path resolves, no
\* patch command is run and patch ends with PatchLevelUndetermined.
C9_InferredLevelIsBacked ==
    /\ (NotLevel(pargs.level) /\ cmds # <<>>) =>
          \E j \in DOMAIN patchTxt : patchTxt[j].plus /\ Resolves(patchTxt[j].file, cmds[1][1])
    /\ (NotLevel(pargs.level) /\ \A j \in DOMAIN patchTxt : ~LineResolves(j)) =>
          /\ cmds = <<>>
          /\ (PatchEnded /\ cwd = "adest" /\ ret.err # "ReadFailed") =>
                ret = Raised("PatchLevelUndetermined")

\* "+++" lines there are, but none resolves
C9_NoPathResolves ==
    /\ pc = "raised"
    /\ ret.err = "PatchLevelUndetermined"
    /\ \E j \in DOMAIN patchTxt : patchTxt[j].plus
    /\ fsFiles # {}
    /\ cmds = <<>>

\* C10: with an explicit level L >= 0 nothing is inferred and the command run is -pL.
C10_ExplicitLevelUsed ==
    pargs.level # NoneInt =>
        /\ ret.err \notin {"PatchLevelUndetermined", "ReadFailed"}
        /\ cmds # <<>> => cmds[1] = pargs.level

\* C11: when the patch tool ends with a non-zero exit code, the error patch() ends with
\* is PatchFailed.
C11_PatchFailedOnNonZero ==
    (cmds # <<>> /\ PyNonZero(ec) /\ ~PyLtZero(ec) /\ PatchEnded) => ret = Raised("PatchFailed")

-----------------------------------------------------------------------------
(* Properties of the scan, the log file and the result of the runners *)

RunEnded == pc \in {"done", "raised"}

\* C14: the scan never changes the outcome of the runner that called it: whatever the
\* regexp argument and the output, the runner ends as it would with the scan disabled.
C14_ScanKeepsOutcome ==
    RunEnded => ret = CmdResult([args EXCEPT !.regexp = "False"], stdoutErr, ec)

\* the line (counted from 0) that position i of text t lies on
LineOf(t, i) == Cardinality({j \in 1..(i - 1) : t[j] = "w"})

\* the number of lines of t, split on newline, that hold a match of r
MatchingLineCount(t, r) ==
    Cardinality({LineOf(t, i) : i \in {k \in DOMAIN t : r \in MatchIn(t[k])}})

\* C15: errorsFoundInLog never decreases; each call of parselogForError adds to it the
\* number of lines of the text that match the pattern, which is the length of the list
\* the call returns, so that it is the total of the matching lines over all calls.
C15_CounterCountsMatchingLines ==
    [][/\ errorsFoundInLog' >= errorsFoundInLog
       /\ IF ret'.kind = "list"
          THEN /\ errorsFoundInLog' = errorsFoundInLog + MatchingLineCount(scanTxt', scanRegExp')
               /\ errorsFoundInLog' = errorsFoundInLog + Len(scanRes')
          ELSE errorsFoundInLog' = errorsFoundInLog]_vars

\* a call that returned two lines after an earlier call that had found one
C15_TwoLinesCounted == errorsFoundInLog = 3 /\ Len(scanRes) = 2 /\ ret.kind = "list"

\* C16: with a log file, the log when it is closed is the command line followed by the
\* whole captured output, the bytes of the final read included.
C16_LogHoldsCapturedOutput == logClosed => runLog = <<"cmd">> \o stdoutErr

\* C17: a non-zero exit code with log_ok or log_all ends the runner with an error that
\* carries the captured output; otherwise the runner returns, in simple mode, whether the
\* exit code is zero and, in non-simple mode, the pair (captured output, exit code).
C17_ResultShape ==
    RunEnded =>
        IF PyNonZero(ec) /\ (args.log_ok \/ args.log_all)
        THEN ret.kind = "raise" /\ ret.err = "NonZeroExit" /\ ret.out = stdoutErr
        ELSE IF args.simple THEN ret.kind = "bool" /\ ret.ok = (ec = Some(0))
        ELSE ret.kind = "pair" /\ ret.out = stdoutErr /\ ret.ec = ec

\* the order in which the caller wrote the custom questions
TableOrder == <<"qA", "qB">>

\* C19: when several custom patterns match the cumulative output in one iteration, the
\* answer sent is that of the question that comes first in the caller's table.
C19_FirstInTableOrderAnswers ==
    (IterDone /\ branch = "custom") =>
        LET first == CHOOSE i \in DOMAIN TableOrder :
                        /\ Search(TableOrder[i], stdoutErr)
                        /\ \A j \in 1..(i - 1) : ~Search(TableOrder[j], stdoutErr)
        IN  sent = <<WithNewline(qa[TableOrder[first]])>>

EndsInNewline(a) == a # <<>> /\ a[Len(a)] = "\n"

\* the answers of both tables as the caller gave them
TableAnswers == {qa[q] : q \in DOMAIN qa} \cup {std_qa[q] : q \in DOMAIN std_qa}

\* C20 as stated: every answer written to the child ends in exactly one newline.
C20_ExactlyOneNewline ==
    IterDone =>
        \A i \in DOMAIN sent :
            /\ EndsInNewline(sent[i])
            /\ ~EndsInNewline(SubSeq(sent[i], 1, Len(sent[i]) - 1))

\* C20: every answer written to the child ends in a newline: it is the caller's answer
\* with a newline appended if that did not end in one, and the caller's answer unchanged
\* if it did, however many newlines it ends in; normalising it again changes nothing.
C20_AnswerEndsInNewline ==
    IterDone =>
        \A i \in DOMAIN sent :
            /\ EndsInNewline(sent[i])
            /\ \E a \in TableAnswers : sent[i] = IF EndsInNewline(a) THEN a ELSE a \o <<"\n">>
            /\ WithNewline(sent[i]) = sent[i]

\* an answer without a newline was sent with one appended
C20_NewlineAppended == IterDone /\ sent = <<qa["qA"] \o <<"\n">>>> /\ ~EndsInNewline(qa["qA"])

\* C18 as stated: the output quoted by a HangTimeout error and by a NonZeroExit error is
\* no longer than a fixed number of characters, however long the output.
C18_ErrorOutputBounded ==
    ret.err \in {"HangTimeout", "NonZeroExit"} => Len(ret.out) <= EndOfOutput

\* C18: a HangTimeout error quotes the last 500 characters of the output, or all of it
\* if it is shorter; a NonZeroExit error quotes the whole output, whatever its length.
C18_HangOutputBounded ==
    /\ ret.err = "HangTimeout" =>
            /\ Len(ret.out) <= 500
            /\ Len(ret.out) = IF Len(stdoutErr) < 500 THEN Len(stdoutErr) ELSE 500
            /\ \A i \in DOMAIN ret.out :
                    ret.out[i] = stdoutErr[Len(stdoutErr) - Len(ret.out) + i]
    /\ ret.err = "NonZeroExit" => ret.out = stdoutErr

\* a HangTimeout error after more than 500 characters of output
C18_LongOutputCut ==
    ret.err = "HangTimeout" /\ Len(stdoutErr) > 500 /\ Len(ret.out) = 500

-----------------------------------------------------------------------------
(* Properties of extractCmd and findBaseDir *)

\* the command the suffix table gives for a name: by the last token and the one before it,
\* in lower case
TableCommand(name, ow) ==
    LET last == Lower(name[Len(name)])
        afterTar == Len(name) > 1 /\ Lower(name[Len(name) - 1]) = "tar"
    IN  CASE last = "gz"  -> IF afterTar THEN "tar xzf %s" ELSE "gunzip %s"
          [] last = "tgz" -> "tar xzf %s"
          [] last = "gtgz" -> "tar xzf %s"
          [] last = "bz2" -> IF afterTar THEN "tar xjf %s" ELSE "bunzip2 %s"
          [] last = "tbz" -> "tar xfj %s"
          [] last = "tar" -> "tar xf %s"
          [] last = "zip" -> IF ow THEN "unzip -qq -o %s" ELSE "unzip -qq %s"
          [] OTHER -> "UnknownFormat"

ExtractCalled == pc \in {"x_once", "x_twice"}

\* C12: for every file name extractCmd gives what the suffix table gives: the table's
\* command with the name as it was passed, or UnknownFormat for any other last token;
\* a second call with the same arguments gives the same again.
C12_AgreesWithTable ==
    ExtractCalled =>
        LET cmd == TableCommand(fn, overwrite)
        IN  IF cmd = "UnknownFormat" THEN ret = Raised("UnknownFormat")
            ELSE ret.kind = "str" /\ ret.out = <<cmd>> \o fn

\* the table is met by every name of at least two tokens
TableMetWithTwoTokens == Len(fn) >= 2 => C12_AgreesWithTable

\* C13: findBaseDir returns the directory it is in when it stops, which is the working
\* directory on return, and never the path of an entry that is not a directory.
C13_ReturnsCurrentDirectory ==
    pc = "fbd_done" =>
        /\ ret.out = cwd
        /\ \A i \in DOMAIN ret.out : IsDir(ret.out[i])

\* C24: for every file name extractCmd either returns a command or fails with
\* UnknownFormat, and in no other way.
C24_CommandOrUnknownFormat ==
    ExtractCalled => (ret.kind = "str" \/ ret = Raised("UnknownFormat"))

-----------------------------------------------------------------------------
(* Properties of the scan and of patch, continued *)

\* the scan of this call was made, over the whole captured output
OutputScanned == scanRegExp = args.regexp /\ scanTxt = stdoutErr

\* C21: a runner called with a true regexp whose child has ended does not end without the
\* scan having been made over the whole captured output, whatever the exit code.
C21_ScannedWheneverEnabled ==
    (RunEnded /\ RegExpTruthy(args.regexp)) => OutputScanned

\* a precondition of patch fails
PreconditionFails == ~pargs.patchIsFile \/ pargs.fn = "missing" \/ ~pargs.destIsDir

\* C22: when a precondition fails, and in copy mode, patch leaves the working directory
\* alone, infers no level and runs no patch command; with a failed precondition nothing
\* is copied either, and copy mode ends with the copy made or with the copy's failure.
C22_NoChdirNoCommand ==
    /\ (PreconditionFails \/ pargs.copy) => (cwd = "orig" /\ p = NoneInt /\ cmds = <<>>)
    /\ PreconditionFails =>
            /\ ~copied
            /\ PatchEnded => ret.err \in {"MissingFile", "MissingDirectory"}
    /\ (~PreconditionFails /\ pargs.copy /\ PatchEnded) =>
            \/ copied /\ ret.kind = "ok"
            \/ ~copied /\ ret = Raised("CopyFailed")

\* copy mode ended with the patch file copied
C22_CopiedOnly == pc = "done" /\ pargs.copy /\ copied /\ cwd = "orig" /\ cmds = <<>>

-----------------------------------------------------------------------------
(* Properties of EasyConfigParser *)

\* C23: every call of write() passes to the write function the content that
\* self.rawcontent holds when write() is called.
C23_WritesCurrentContent ==
    [][Len(written') > Len(written) => written'[Len(written')] = rawcontent]_vars

\* C25: _extract_comments never reads raw[i] with i at or beyond len(raw): it does not
\* end in an IndexError, and i stays within the lines while the scan goes on.
C25_NoReadPastEnd ==
    /\ ret.err # "IndexError"
    /\ pc = "p_loop" => lineNo <= Len(Split(rawcontent))

====
